---- MODULE Spec2Model ----
(***************************************************************************)
(* Model of the payment.transaction extension (payment_vsf) and of the     *)
(* product queries of the GraphQL layer (graphql_vuestorefront).           *)
(*                                                                         *)
(* Recordsets are modelled as sets of record ids, iterated in ascending id *)
(* order.  Strings that the code takes apart (references, prefixes,        *)
(* separators) are sequences of one-character strings; all other strings   *)
(* (states, messages, method names) are atoms.  Unset fields (False/None)  *)
(* are 0 for ids, dates and numbers and "None" for strings.                *)
(***************************************************************************)
EXTENDS Integers, Sequences, FiniteSets, TLC

VARIABLES
    \* payment.transaction table
    txs,                    \* ids of the existing transactions
    state,
    state_message,
    date,
    last_state_change,
    provider,
    reference,
    amount,
    operation,
    source_transaction_id,
    payment_id,             \* the account.payment of each tx, 0 when none
    callback_model_id,
    callback_res_id,
    callback_method,
    callback_hash,
    callback_is_done,
    \* environment
    now,                    \* last value read from fields.Datetime.now()
    records,                \* existing <<model id, res id>> callback records
    canceled_payments,      \* the payments action_cancel() was called on
    \* observable effects
    requests,               \* number of requests sent, per <<kind, tx>>
    callback_calls,         \* number of invocations of the callback of each tx
    callback_success,       \* what the last invocation for each tx returned
    ret,                    \* the last call on a recordset: operation, result
    computed,               \* the last _compute_reference_changed call and result
    product_list,           \* the last get_product_list call and result
    \* product.template table
    products,               \* ids of the existing products
    name,                   \* the rank of the product's name in name order
    list_price,
    in_sale_domain,         \* whether website.sale_product_domain() selects it
    attribute_value_ids,
    website_slug,           \* "None" when the product has no slug
    barcode,                \* "None" when the product has no barcode
    can_access,             \* can_access_from_current_website() of the product
    \* requests in progress
    creating                \* the _create_refund_transaction call of each request

txFields == <<txs, state, state_message, date, last_state_change, provider,
              reference, amount, operation, source_transaction_id, payment_id>>
cbFields == <<callback_model_id, callback_res_id, callback_method,
              callback_hash, callback_is_done>>
cbLog == <<callback_calls, callback_success>>
prodVars == <<products, name, list_price, in_sale_domain, attribute_value_ids,
              website_slug, barcode, can_access>>
results == <<computed, product_list>>
vars == <<txFields, cbFields, now, records, canceled_payments, requests, cbLog,
          ret, results, prodVars>>

----------------------------------------------------------------------------
(* Bounds *)

MaxTx == 3          \* size of the transaction table
InitTx == 2         \* transactions existing initially
MaxClock == 2       \* last clock value
MaxSent == 2        \* requests logged per kind and transaction
MaxCalls == 3       \* callback invocations logged per transaction

TxIds == 1..MaxTx

----------------------------------------------------------------------------
(* Strings *)

DigitChars == <<"0", "1", "2", "3", "4", "5", "6", "7", "8", "9">>
Digits == {DigitChars[i] : i \in 1..10}

\* str(n) for n >= 0, as in the f-string of the full reference
RECURSIVE ToStr(_)
ToStr(n) ==
    IF n < 10 THEN <<DigitChars[n + 1]>>
    ELSE ToStr(n \div 10) \o <<DigitChars[(n % 10) + 1]>>

DigitVal(c) == CHOOSE d \in 0..9 : DigitChars[d + 1] = c

\* int(s) for a non-empty string of digits
RECURSIVE ToInt(_)
ToInt(s) ==
    IF Len(s) = 0 THEN 0
    ELSE 10 * ToInt(SubSeq(s, 1, Len(s) - 1)) + DigitVal(s[Len(s)])

IsDigits(s) == Len(s) >= 1 /\ \A i \in 1..Len(s) : s[i] \in Digits

\* sub in s
Contains(s, sub) ==
    \E i \in 1..(Len(s) - Len(sub) + 1) : SubSeq(s, i, i + Len(sub) - 1) = sub

RECURSIVE Join(_, _)
Join(sep, strs) ==
    IF Len(strs) = 0 THEN <<>>
    ELSE IF Len(strs) = 1 THEN strs[1]
    ELSE strs[1] \o sep \o Join(sep, Tail(strs))

SetMax(S) == CHOOSE m \in S : \A x \in S : x <= m

\* the elements of a set of ids in ascending order
RECURSIVE SortedIds(_)
SortedIds(S) ==
    IF S = {} THEN <<>>
    ELSE LET m == CHOOSE x \in S : \A y \in S : x <= y
         IN <<m>> \o SortedIds(S \ {m})

----------------------------------------------------------------------------
(* Transaction states *)

States == {"draft", "pending", "authorized", "done", "cancel", "error"}
Messages == {"None", "msg"}
Providers == {"adyen_direct", "transfer"}

\* what a call returned: the operation, its recordset, the recordset it
\* returned, the exception it raised, and the arguments where a claim reads them
Ret(op, self, val, exc) == [op |-> op, self |-> self, val |-> val, exc |-> exc,
                            args |-> <<>>]
NoRet == Ret("none", {}, {}, "None")
NoComputed == [prefix |-> <<>>, computed_prefix |-> <<>>, separator |-> <<>>,
               existing |-> {}, reference |-> <<>>]

\* fields.Datetime.now(): the clock never goes back
ClockReads(t) == {u \in t..(t + 1) : u <= MaxClock}

\* _classify_by_state: 'to process', 'processed', 'in wrong state'
_classify_by_state(transactions, allowed_states, target_state) ==
    LET txs_to_process == {t \in transactions : state[t] \in allowed_states}
        txs_already_processed == {t \in transactions : state[t] = target_state}
        txs_wrong_state == (transactions \ txs_to_process) \ txs_already_processed
    IN <<txs_to_process, txs_already_processed, txs_wrong_state>>

\* a variant of TxsToProcess that leaves out the transactions already in the
\* target state
TxsToProcessSkippingTarget(self, allowed_states, target_state) ==
    {t \in self : state[t] \in allowed_states /\ state[t] # target_state}

\* the recordset _update_state writes to and returns
TxsToProcess(self, allowed_states, target_state) ==
    _classify_by_state(self, allowed_states, target_state)[1]

\* txs_to_process.write({...}) of _update_state, reading the clock twice
WriteState(txs_to_process, target_state, msg) ==
    \E d \in ClockReads(now) : \E l \in ClockReads(d) :
        /\ state' = [t \in TxIds |-> IF t \in txs_to_process THEN target_state ELSE state[t]]
        /\ state_message' = [t \in TxIds |-> IF t \in txs_to_process THEN msg
                                             ELSE state_message[t]]
        /\ date' = [t \in TxIds |-> IF t \in txs_to_process THEN d ELSE date[t]]
        /\ last_state_change' = [t \in TxIds |-> IF t \in txs_to_process THEN l
                                                 ELSE last_state_change[t]]
        /\ now' = l

\* self._update_state(allowed_states, target_state, state_message)
_update_state(self, allowed_states, target_state, msg) ==
    /\ WriteState(TxsToProcess(self, allowed_states, target_state), target_state, msg)
    /\ UNCHANGED <<txs, provider, reference, amount, operation,
                   source_transaction_id, payment_id, cbFields, records,
                   requests, cbLog, results, prodVars, creating>>

\* txs_to_process.mapped('payment_id').action_cancel()
CancelPayments(txs_to_process) ==
    canceled_payments' = canceled_payments \cup
        {payment_id[t] : t \in {u \in txs_to_process : payment_id[u] # 0}}

AllowedPending == {"draft"}
AllowedAuthorized == {"draft", "pending"}
\* a variant of AllowedDone that lets a canceled transaction be confirmed
AllowedDoneWithCancel == {"draft", "pending", "authorized", "error", "cancel"}
AllowedDone == {"draft", "pending", "authorized", "error"}
AllowedCanceled == {"draft", "pending", "authorized"}
AllowedError == {"draft", "pending", "authorized"}

\* The five state updates return nothing
_set_pending ==
    \E self \in SUBSET txs, msg \in Messages :
        /\ _update_state(self, AllowedPending, "pending", msg)
        /\ UNCHANGED <<canceled_payments, ret>>

_set_authorized ==
    \E self \in SUBSET txs, msg \in Messages :
        /\ _update_state(self, AllowedAuthorized, "authorized", msg)
        /\ UNCHANGED <<canceled_payments, ret>>

_set_done ==
    \E self \in SUBSET txs, msg \in Messages :
        /\ _update_state(self, AllowedDone, "done", msg)
        /\ UNCHANGED <<canceled_payments, ret>>

_set_canceled ==
    \E self \in SUBSET txs, msg \in Messages :
        /\ _update_state(self, AllowedCanceled, "cancel", msg)
        /\ CancelPayments(TxsToProcess(self, AllowedCanceled, "cancel"))
        /\ UNCHANGED ret

_set_error ==
    \E self \in SUBSET txs, msg \in Messages :
        /\ _update_state(self, AllowedError, "error", msg)
        /\ UNCHANGED <<canceled_payments, ret>>

\* The allowed_states a call of _update_state is given: those of the five
\* state updates and every set of at most MaxAllowed states
MaxAllowed == 1
AllowedStateSets ==
    {AllowedPending, AllowedAuthorized, AllowedDone, AllowedCanceled, AllowedError}
        \cup {S \in SUBSET States : Cardinality(S) <= MaxAllowed}

\* a call of self._update_state(allowed_states, target_state, state_message)
\* and what it returns
UpdateStateCall(self, allowed_states, target_state, msg) ==
    /\ _update_state(self, allowed_states, target_state, msg)
    /\ ret' = [Ret("_update_state", self,
                   TxsToProcess(self, allowed_states, target_state), "None")
               EXCEPT !.args = <<allowed_states, target_state, msg>>]
    /\ UNCHANGED canceled_payments

\* one call of _update_state on the table the behaviour starts with
update_state ==
    \E self \in SUBSET txs, allowed_states \in AllowedStateSets,
       target_state \in States, msg \in Messages :
        /\ ret = NoRet
        /\ UpdateStateCall(self, allowed_states, target_state, msg)

----------------------------------------------------------------------------
(* References *)

\* Characters of the strings the model draws.  "E_ACUTE" and "EURO" stand for
\* the non-ASCII characters e-acute (NFKD: e + combining accent) and the euro
\* sign (no ASCII part).  "$" is the one character of the alphabet that
\* re.compile reads as an operator rather than as itself; the wildcards of
\* LIKE (%, _) and the other regex operators are not part of the alphabet.
NonAscii == {"E_ACUTE", "EURO"}

\* one character through unicodedata.normalize('NFKD', c).encode('ascii', 'ignore')
AsciiOf(c) ==
    IF c = "E_ACUTE" THEN <<"e">>
    ELSE IF c \in NonAscii THEN <<>>
    ELSE <<c>>

RECURSIVE Normalize(_)
Normalize(s) ==
    IF Len(s) = 0 THEN <<>> ELSE AsciiOf(Head(s)) \o Normalize(Tail(s))

\* account.move: the names of the existing invoices
InvoiceIds == {1, 2}
InvoiceName(i) == <<"I", DigitChars[i + 1]>>

\* _compute_reference_prefix_changed(provider, separator, invoice_ids=...)
_compute_reference_prefix_changed(prov, separator, invoice_ids) ==
    IF Len(invoice_ids) # 0
    THEN LET invoices == SelectSeq(invoice_ids, LAMBDA i : i \in InvoiceIds)
         IN IF Len(invoices) = Len(invoice_ids)
            THEN Join(separator, [k \in 1..Len(invoices) |-> InvoiceName(invoices[k])])
            ELSE <<>>
    ELSE <<>>

\* payment_utils.singularize_reference_prefix(): 'tx-{datetime}'
singularize_reference_prefix == <<"t", "x", "-">> \o ToStr(now)

\* The position after a match of the pattern pat[k..] at s[i..], 0 when it does
\* not match.  A pattern character stands for itself, except "$", which
\* matches the empty string at the end of s.
RECURSIVE MatchFrom(_, _, _, _)
MatchFrom(pat, k, s, i) ==
    IF k > Len(pat) THEN i
    ELSE IF pat[k] = "$"
         THEN IF i = Len(s) + 1 THEN MatchFrom(pat, k + 1, s, i) ELSE 0
         ELSE IF i <= Len(s) /\ s[i] = pat[k] THEN MatchFrom(pat, k + 1, s, i + 1)
              ELSE 0

\* re.search(re.compile(rf'^{prefix}{separator}(\d+)$'), existing_reference):
\* group(1) of the match, <<>> when there is none
SearchPattern(prefix, separator, existing_reference) ==
    LET j == MatchFrom(prefix \o separator, 1, existing_reference, 1)
        rest == SubSeq(existing_reference, j, Len(existing_reference))
    IN IF j # 0 /\ IsDigits(rest) THEN rest ELSE <<>>

\* the prefix _compute_reference_changed settles on
ComputedPrefix(prov, prefix, separator, invoice_ids) ==
    LET p1 == IF Len(prefix) # 0 THEN Normalize(prefix) ELSE prefix
        p2 == IF Len(p1) = 0
              THEN _compute_reference_prefix_changed(prov, separator, invoice_ids)
              ELSE p1
    IN IF Len(p2) = 0 THEN singularize_reference_prefix ELSE p2

\* the largest sequence number found among same_prefix_references
MaxSequenceNumber(refs, prefix, separator) ==
    LET same_prefix_references == {r \in refs : Contains(r, prefix \o separator)}
        found == {ToInt(SearchPattern(prefix, separator, r)) :
                     r \in {x \in same_prefix_references :
                               Len(SearchPattern(prefix, separator, x)) # 0}}
    IN SetMax(found \cup {0})

\* _compute_reference_changed(provider, prefix, separator, **kwargs), searching
\* a table whose references are refs
_compute_reference_changed(refs, prov, prefix, separator, invoice_ids) ==
    LET p == ComputedPrefix(prov, prefix, separator, invoice_ids)
    IN IF p \in refs
       THEN p \o separator \o ToStr(MaxSequenceNumber(refs, p, separator) + 1)
       ELSE p

References == {reference[t] : t \in txs}

----------------------------------------------------------------------------
(* Capture, void and refund *)

RequestKinds == {"_send_capture_request", "s2s_capture_transaction",
                 "_send_void_request", "s2s_void_transaction", "s2s_do_refund"}

\* x or y, for numbers
PyOr(x, y) == IF x # 0 THEN x ELSE y

\* the requests after one request per transaction of self, of the kind the
\* provider of the transaction selects
SendRequests(self, adyen_kind, other_kind) ==
    [rq \in RequestKinds \X TxIds |->
        IF /\ rq[2] \in self
           /\ rq[1] = (IF provider[rq[2]] = "adyen_direct" THEN adyen_kind ELSE other_kind)
        THEN requests[rq] + 1
        ELSE requests[rq]]

CanSend(self) == \A rq \in RequestKinds \X self : requests[rq] < MaxSent

\* a variant of AnyNotInState that needs every transaction in a wrong state
AllNotInState(self, required) == \A t \in self : state[t] # required

\* any(tx.state != required for tx in self)
AnyNotInState(self, required) == \E t \in self : state[t] # required

Raise(op, self, exc) ==
    /\ ret' = Ret(op, self, {}, exc)
    /\ UNCHANGED <<txFields, cbFields, now, records, canceled_payments, requests,
                   cbLog, results, prodVars, creating>>

\* action_capture / action_void: the state check, the access check of
\* payment_utils.check_rights_on_recordset (has_rights), then the requests
CaptureOrVoid(op, self, has_rights, adyen_kind, other_kind) ==
    IF AnyNotInState(self, "authorized") THEN Raise(op, self, "ValidationError")
    ELSE IF ~has_rights THEN Raise(op, self, "AccessError")
    ELSE /\ CanSend(self)
         /\ requests' = SendRequests(self, adyen_kind, other_kind)
         /\ ret' = Ret(op, self, {}, "None")
         /\ UNCHANGED <<txFields, cbFields, now, records, canceled_payments,
                        cbLog, results, prodVars, creating>>

action_capture ==
    \E self \in SUBSET txs, has_rights \in BOOLEAN :
        CaptureOrVoid("action_capture", self, has_rights,
                      "_send_capture_request", "s2s_capture_transaction")

action_void ==
    \E self \in SUBSET txs, has_rights \in BOOLEAN :
        CaptureOrVoid("action_void", self, has_rights,
                      "_send_void_request", "s2s_void_transaction")

\* The references of the refund transactions created one after the other for
\* the source transactions srcs, in a table whose references are refs.
RECURSIVE RefundReferences(_, _)
RefundReferences(srcs, refs) ==
    IF Len(srcs) = 0 THEN <<>>
    ELSE LET r == _compute_reference_changed(refs, provider[Head(srcs)],
                      <<"R", "-">> \o reference[Head(srcs)], <<"-">>, <<>>)
         IN <<r>> \o RefundReferences(Tail(srcs), refs \cup {r})

\* _create_refund_transaction(amount_to_refund) on each transaction of srcs in
\* turn: self.create({...}), the new records taking the next free ids
CreateRefundTransactions(srcs, amount_to_refund) ==
    LET n == Cardinality(txs)
        new == (n + 1)..(n + Len(srcs))
        refs == RefundReferences(srcs, References)
        Put(f, v(_)) == [t \in TxIds |-> IF t \in new THEN v(t - n) ELSE f[t]]
    IN /\ n + Len(srcs) <= MaxTx
       /\ txs' = txs \cup new
       /\ reference' = Put(reference, LAMBDA k : refs[k])
       /\ amount' = Put(amount, LAMBDA k : 0 - PyOr(amount_to_refund, amount[srcs[k]]))
       /\ operation' = Put(operation, LAMBDA k : "refund")
       /\ source_transaction_id' = Put(source_transaction_id, LAMBDA k : srcs[k])
       /\ provider' = Put(provider, LAMBDA k : provider[srcs[k]])
       /\ last_state_change' = Put(last_state_change, LAMBDA k : now)
       /\ computed' = IF Len(srcs) = 0 THEN computed
                      ELSE LET s == srcs[Len(srcs)]
                           IN [prefix |-> <<"R", "-">> \o reference[s],
                               computed_prefix |-> ComputedPrefix(provider[s],
                                   <<"R", "-">> \o reference[s], <<"-">>, <<>>),
                               separator |-> <<"-">>,
                               existing |-> References \cup
                                            {refs[j] : j \in 1..(Len(srcs) - 1)},
                               reference |-> refs[Len(srcs)]]
       /\ UNCHANGED <<state, state_message, date, payment_id, cbFields, now>>

\* action_refund(amount_to_refund): _send_refund_request (which creates the
\* refund transaction) for adyen_direct, s2s_do_refund for the others
action_refund ==
    \E self \in SUBSET txs, amount_to_refund \in {0, 3} :
        IF AnyNotInState(self, "done")
        THEN Raise("action_refund", self, "ValidationError")
        ELSE LET adyen == {t \in self : provider[t] = "adyen_direct"}
             IN /\ CanSend(self)
                /\ CreateRefundTransactions(SortedIds(adyen), amount_to_refund)
                /\ requests' = SendRequests(self \ adyen, "s2s_do_refund", "s2s_do_refund")
                /\ ret' = Ret("action_refund", self, {}, "None")
                /\ UNCHANGED <<records, canceled_payments, cbLog, product_list,
                               prodVars, creating>>

----------------------------------------------------------------------------
(* Callbacks *)

\* ir.model: the model name of a model id
ModelName(model_id) == IF model_id = 1 THEN "sale.order" ELSE "account.move"

\* hmac_tool(env, 'generate_callback_hash', token): one hash per token
Hmac(token) == <<"hmac">> \o token

\* _generate_callback_hash_changed(callback_model_id, callback_res_id,
\* callback_method), as the string ustr() makes of it
_generate_callback_hash_changed(model_id, res_id, method) ==
    IF model_id # 0 /\ res_id # 0 /\ method # "None"
    THEN Hmac(<<ModelName(model_id), res_id, method>>)
    ELSE <<"None">>

\* what a callback method may return
CallbackReturns == {"True", "False", "None", "0"}
Truthy(v) == v = "True"

\* a variant of SuccessOrNone that takes a missing return for a failure
SuccessOnly(success) == Truthy(success)

\* success or success is None, as stored in the Boolean field
SuccessOrNone(success) == IF Truthy(success) THEN TRUE ELSE success = "None"

\* model_sudo and res_id and method
CallbackIsSet(t) ==
    callback_model_id[t] # 0 /\ callback_res_id[t] # 0 /\ callback_method[t] # "None"

\* a variant of ValidCallbackHash that accepts every hash
AnyCallbackHash(t) == TRUE

\* consteq(ustr(valid_callback_hash), callback_hash)
ValidCallbackHash(t) ==
    _generate_callback_hash_changed(callback_model_id[t], callback_res_id[t],
                                    callback_method[t]) = callback_hash[t]

\* self.env[model_sudo.model].browse(res_id).exists()
RecordExists(t) == <<callback_model_id[t], callback_res_id[t]>> \in records

\* a variant of NotDone that keeps the executed callbacks
DoneOrNot(self) == self

\* self.filtered(lambda t: not t.sudo().callback_is_done)
NotDone(self) == {t \in self : ~callback_is_done[t]}

\* the transactions of self whose callback _execute_callback invokes
ToInvoke(self) ==
    {t \in NotDone(self) : CallbackIsSet(t) /\ ValidCallbackHash(t) /\ RecordExists(t)}

\* the loop of _execute_callback, the callback of t returning returns[t]
ExecuteCallbacks(self) ==
    LET invoke == ToInvoke(self)
    IN \E returns \in [invoke -> CallbackReturns] :
        /\ \A t \in invoke : callback_calls[t] < MaxCalls
        /\ callback_calls' = [t \in TxIds |-> IF t \in invoke THEN callback_calls[t] + 1
                                              ELSE callback_calls[t]]
        /\ callback_success' = [t \in TxIds |-> IF t \in invoke THEN returns[t]
                                                ELSE callback_success[t]]
        /\ callback_is_done' = [t \in TxIds |-> IF t \in invoke
                                                THEN SuccessOrNone(returns[t])
                                                ELSE callback_is_done[t]]
        /\ UNCHANGED <<txFields, callback_model_id, callback_res_id, callback_method,
                       callback_hash, now, records, canceled_payments, requests,
                       results, prodVars, creating>>

_execute_callback ==
    \E self \in SUBSET txs :
        /\ ExecuteCallbacks(self)
        /\ ret' = Ret("_execute_callback", self, {}, "None")

\* _handle_feedback_data(provider, data): _get_tx_from_feedback_data returns
\* self, _process_feedback_data is self.ensure_one(), then the callbacks
_handle_feedback_data ==
    \E self \in SUBSET txs :
        IF Cardinality(self) # 1
        THEN Raise("_handle_feedback_data", self, "ValueError")
        ELSE /\ ExecuteCallbacks(self)
             /\ ret' = Ret("_handle_feedback_data", self, self, "None")

----------------------------------------------------------------------------
(* Product list *)

MaxProducts == 3    \* size of the product table
MaxPage == 3        \* largest current_page asked for
MaxPageSize == 3    \* largest page_size asked for

ProductIds == 1..MaxProducts

\* get_search_order(sort): the terms of the order, sort being the (field,
\* direction) items of the sort input in their order
RECURSIVE SortTerms(_)
SortTerms(sort) ==
    IF Len(sort) = 0 THEN <<>>
    ELSE <<IF Head(sort)[1] = "price" THEN <<"list_price", Head(sort)[2]>>
           ELSE Head(sort)>> \o SortTerms(Tail(sort))

\* a variant of get_search_order whose last factor is the id, descending
SearchOrderIdDescending(sort) == SortTerms(sort) \o <<<<"id", "DESC">>>>

get_search_order(sort) == SortTerms(sort) \o <<<<"id", "ASC">>>>

\* get_search_domain(env, search, **kwargs), for the filters on fields the
\* model carries: sale_product_domain(), ids, min_price and max_price.  (The
\* category, attribute, name and text filters are further conjuncts of the
\* same AND over fields that are not modelled.)
get_search_domain(filter, p) ==
    /\ in_sale_domain[p]
    /\ filter.ids # {} => p \in filter.ids
    /\ filter.min_price # 0 => list_price[p] >= filter.min_price
    /\ filter.max_price # 0 => list_price[p] <= filter.max_price

FieldValue(p, field) ==
    IF field = "list_price" THEN list_price[p]
    ELSE IF field = "name" THEN name[p]
    ELSE p

\* whether p comes before q in the order
RECURSIVE Before(_, _, _)
Before(p, q, order) ==
    IF Len(order) = 0 THEN FALSE
    ELSE LET a == FieldValue(p, Head(order)[1])
             b == FieldValue(q, Head(order)[1])
         IN IF a = b THEN Before(p, q, Tail(order))
            ELSE IF Head(order)[2] = "ASC" THEN a < b ELSE a > b

\* Product.search(domain, order=order): the matching products, ordered
Search(filter, order) ==
    LET found == {p \in products : get_search_domain(filter, p)}
    IN [i \in 1..Cardinality(found) |->
           CHOOSE p \in found : Cardinality({q \in found : Before(q, p, order)}) = i - 1]

\* an index of a slice of a sequence of length n, as Python clamps it
SliceIndex(i, n) ==
    IF i < 0 THEN (IF i + n < 0 THEN 0 ELSE i + n)
    ELSE IF i > n THEN n ELSE i

\* seq[lo:hi]
Slice(seq, lo, hi) == SubSeq(seq, SliceIndex(lo, Len(seq)) + 1, SliceIndex(hi, Len(seq)))

\* First offset is 0 but first page is 1
Offset(current_page, page_size) ==
    IF current_page > 1 THEN (current_page - 1) * page_size ELSE 0

SeqRange(seq) == {seq[i] : i \in 1..Len(seq)}

\* get_product_list(env, current_page, page_size, search, sort, **kwargs)
get_product_list_result(current_page, page_size, sort, filter) ==
    LET offset == Offset(current_page, page_size)
        found == Search(filter, get_search_order(sort))
    IN [products |-> Slice(found, offset, offset + page_size),
        total_count |-> Len(found),
        attribute_values |-> UNION {attribute_value_ids[p] : p \in SeqRange(found)}]

NoProductList == [current_page |-> 0, page_size |-> 0, sort |-> <<>>, order |-> <<>>,
                  filter |-> [ids |-> {}, min_price |-> 0, max_price |-> 0],
                  products |-> <<>>, total_count |-> 0, attribute_values |-> {}]

Pages == (0 - 1)..MaxPage
PageSizes == (0 - 1)..MaxPageSize
SortInputs == {<<>>, <<<<"price", "DESC">>>>,
               <<<<"name", "ASC">>, <<"price", "ASC">>>>, <<<<"id", "DESC">>>>}
Filters == {[ids |-> {}, min_price |-> 0, max_price |-> 0],
            [ids |-> {1, 2}, min_price |-> 0, max_price |-> 0],
            [ids |-> {}, min_price |-> 20, max_price |-> 0],
            [ids |-> {2, 3}, min_price |-> 0, max_price |-> 10]}

\* ProductQuery.resolve_products(info, filter, current_page, page_size, search,
\* sort): one query on the table the behaviour starts with
resolve_products ==
    \E current_page \in Pages, page_size \in PageSizes, sort \in SortInputs,
       filter \in Filters :
        LET r == get_product_list_result(current_page, page_size, sort, filter)
        IN /\ product_list = NoProductList
           /\ product_list' = [current_page |-> current_page, page_size |-> page_size,
                               sort |-> sort, order |-> get_search_order(sort),
                               filter |-> filter,
                               products |-> r.products, total_count |-> r.total_count,
                               attribute_values |-> r.attribute_values]
           /\ UNCHANGED <<txFields, cbFields, now, records, canceled_payments,
                          requests, cbLog, ret, computed, prodVars, creating>>

\* An argument of a query is <<>> when it is left out (None) and <<v>> when
\* it is given the value v.  Python takes 0 and '' for false, as it does None.
IsTrueInt(arg) == Len(arg) = 1 /\ arg[1] # 0
IsTrueStr(arg) == Len(arg) = 1 /\ arg[1] # ""

\* search(domain, limit=1) of resolve_product: the first of the products
\* matching, in the order of their names, or the empty recordset
FirstProduct(matching) ==
    IF matching = {} THEN {}
    ELSE {CHOOSE p \in matching : \A q \in matching : name[p] <= name[q]}

\* the product resolve_product looks up; None and the empty recordset are
\* both the empty set
LookUp(id, slug, bcode) ==
    IF IsTrueInt(id) THEN FirstProduct({p \in products : p = id[1]})
    ELSE IF IsTrueStr(slug) THEN FirstProduct({p \in products : website_slug[p] = slug[1]})
    ELSE IF IsTrueStr(bcode) THEN FirstProduct({p \in products : barcode[p] = bcode[1]})
    ELSE {}

IdArgs == {<<>>} \cup {<<i>> : i \in 0..(MaxProducts + 1)}
SlugArgs == {<<>>, <<"">>, <<"s1">>, <<"s2">>}
BarcodeArgs == {<<>>, <<"">>, <<"b1">>, <<"b2">>}

\* ProductQuery.resolve_product(info, id, slug, barcode): one query.  (The
\* assignment to request.website is not modelled.)
resolve_product ==
    \E id \in IdArgs, slug \in SlugArgs, bcode \in BarcodeArgs :
        LET product == LookUp(id, slug, bcode)
        IN /\ ret = NoRet
           /\ ret' = [Ret("resolve_product", {}, product,
                          IF product = {} \/ \E p \in product : ~can_access[p]
                          THEN "GraphQLError" ELSE "None")
                      EXCEPT !.args = <<id, slug, bcode>>]
           /\ UNCHANGED <<txFields, cbFields, now, records, canceled_payments,
                          requests, cbLog, results, prodVars, creating>>

----------------------------------------------------------------------------
(* Refunds requested at the same time *)

\* Two requests, each running _create_refund_transaction in a worker of its
\* own.  A request first computes the reference, reading the table as it is,
\* and then creates the refund transaction.
Requests == {1, 2}

NotCreating == [pc |-> "start", source |-> 0, reference |-> <<>>, created |-> 0]

\* the argument of create(): self._compute_reference_changed(self.provider,
\* prefix=f'R-{self.reference}')
refund_compute_reference(r) ==
    \E t \in txs :
        /\ creating[r].pc = "start"
        /\ creating' = [creating EXCEPT ![r] =
               [pc |-> "computed", source |-> t,
                reference |-> _compute_reference_changed(References, provider[t],
                                  <<"R", "-">> \o reference[t], <<"-">>, <<>>),
                created |-> 0]]
        /\ UNCHANGED <<txFields, cbFields, now, records, canceled_payments,
                       requests, cbLog, ret, results, prodVars>>

\* self.create({...}) with the reference computed before
refund_create(r) ==
    LET n == Cardinality(txs)
        t == creating[r].source
    IN /\ creating[r].pc = "computed"
       /\ n + 1 <= MaxTx
       /\ txs' = txs \cup {n + 1}
       /\ reference' = [reference EXCEPT ![n + 1] = creating[r].reference]
       /\ amount' = [amount EXCEPT ![n + 1] = 0 - amount[t]]
       /\ operation' = [operation EXCEPT ![n + 1] = "refund"]
       /\ source_transaction_id' = [source_transaction_id EXCEPT ![n + 1] = t]
       /\ provider' = [provider EXCEPT ![n + 1] = provider[t]]
       /\ last_state_change' = [last_state_change EXCEPT ![n + 1] = now]
       /\ creating' = [creating EXCEPT ![r].pc = "created", ![r].created = n + 1]
       /\ UNCHANGED <<state, state_message, date, payment_id, cbFields, now, records,
                      canceled_payments, requests, cbLog, ret, results, prodVars>>

----------------------------------------------------------------------------
(* Calls on the reference *)

Prefixes == {<<>>, <<"a">>, <<"a", "$">>, <<"E_ACUTE">>, <<"EURO">>}
Separators == {<<"-">>, <<"x">>}
InvoiceIdLists == {<<>>, <<1>>, <<1, 2>>, <<3>>}

\* a call of _compute_reference_changed(provider, prefix, separator, **kwargs)
compute_reference ==
    \E prefix \in Prefixes, separator \in Separators, invoice_ids \in InvoiceIdLists :
        /\ computed' = [prefix |-> prefix,
                        computed_prefix |-> ComputedPrefix("adyen_direct", prefix,
                                                           separator, invoice_ids),
                        separator |-> separator, existing |-> References,
                        reference |-> _compute_reference_changed(
                            References, "adyen_direct", prefix, separator, invoice_ids)]
        /\ UNCHANGED <<txFields, cbFields, now, records, canceled_payments,
                       requests, cbLog, ret, product_list, prodVars, creating>>

\* _send_refund_request(amount_to_refund, create_refund_transaction)
_send_refund_request ==
    \E t \in txs, amount_to_refund \in {0, 3}, create_refund_transaction \in BOOLEAN :
        /\ IF create_refund_transaction
           THEN /\ CreateRefundTransactions(<<t>>, amount_to_refund)
                /\ ret' = Ret("_send_refund_request", {t}, {Cardinality(txs) + 1},
                               "None")
           ELSE /\ ret' = Ret("_send_refund_request", {t}, {}, "None")
                /\ UNCHANGED <<txFields, cbFields, now, computed>>
        /\ UNCHANGED <<records, canceled_payments, requests, cbLog, product_list,
                       prodVars, creating>>

----------------------------------------------------------------------------
(* Initial states *)

\* The references of the transactions a table starts with
InitialReference(t) == <<"a">> \o ToStr(t)

\* n transactions in the states sts: as create() leaves them when in state
\* 'draft', as one state update leaves them otherwise
Transactions(n, sts, refs, provs, payments) ==
    /\ txs = 1..n
    /\ state = [t \in TxIds |-> IF t <= n THEN sts[t] ELSE "draft"]
    /\ state_message = [t \in TxIds |-> "None"]
    /\ date = [t \in TxIds |-> IF t <= n /\ sts[t] # "draft" THEN 1 ELSE 0]
    /\ last_state_change = [t \in TxIds |-> IF t <= n THEN 1 ELSE 0]
    /\ provider = [t \in TxIds |-> IF t <= n THEN provs[t] ELSE "None"]
    /\ reference = [t \in TxIds |-> IF t <= n THEN refs[t] ELSE <<>>]
    /\ amount = [t \in TxIds |-> IF t <= n THEN 10 ELSE 0]
    /\ operation = [t \in TxIds |-> IF t <= n THEN "online_direct" ELSE "None"]
    /\ source_transaction_id = [t \in TxIds |-> 0]
    /\ payment_id = [t \in TxIds |-> IF t <= n THEN payments[t] ELSE 0]
    /\ now = 1

NoCallbacks ==
    /\ callback_model_id = [t \in TxIds |-> 0]
    /\ callback_res_id = [t \in TxIds |-> 0]
    /\ callback_method = [t \in TxIds |-> "None"]
    /\ callback_hash = [t \in TxIds |-> <<"None">>]
    /\ callback_is_done = [t \in TxIds |-> FALSE]
    /\ records = {}

NothingDone ==
    /\ canceled_payments = {}
    /\ requests = [rq \in RequestKinds \X TxIds |-> 0]
    /\ callback_calls = [t \in TxIds |-> 0]
    /\ callback_success = [t \in TxIds |-> "NotCalled"]
    /\ ret = NoRet
    /\ computed = NoComputed
    /\ product_list = NoProductList
    /\ creating = [r \in Requests |-> NotCreating]

NoProducts ==
    /\ products = {}
    /\ name = [p \in ProductIds |-> 0]
    /\ list_price = [p \in ProductIds |-> 0]
    /\ in_sale_domain = [p \in ProductIds |-> FALSE]
    /\ attribute_value_ids = [p \in ProductIds |-> {}]
    /\ website_slug = [p \in ProductIds |-> "None"]
    /\ barcode = [p \in ProductIds |-> "None"]
    /\ can_access = [p \in ProductIds |-> FALSE]

InitReferences == [t \in 1..InitTx |-> InitialReference(t)]
AllDraft == [t \in 1..InitTx |-> "draft"]
NoPayments == [t \in 1..InitTx |-> 0]
AllTransfer == [t \in 1..InitTx |-> "transfer"]

\* Transactions just created, with or without a payment
Init ==
    /\ \E payments \in [1..InitTx -> 0..1] :
        Transactions(InitTx, AllDraft, InitReferences, AllTransfer,
                     [t \in 1..InitTx |-> payments[t] * t])
    /\ NoCallbacks
    /\ NothingDone
    /\ NoProducts

\* The state updates
Next ==
    \/ _set_pending
    \/ _set_authorized
    \/ _set_done
    \/ _set_canceled
    \/ _set_error

Spec == Init /\ [][Next]_vars

\* Transactions in any states, for the requests on them
InitActions ==
    /\ \E sts \in [1..InitTx -> States], provs \in [1..InitTx -> Providers] :
        Transactions(InitTx, sts, InitReferences, provs, NoPayments)
    /\ NoCallbacks
    /\ NothingDone
    /\ NoProducts

NextActions ==
    \/ action_capture
    \/ action_void
    \/ action_refund

SpecActions == InitActions /\ [][NextActions]_vars

\* Transactions in any states, for a call of _update_state
InitUpdateState ==
    /\ \E sts \in [1..InitTx -> States] :
        Transactions(InitTx, sts, InitReferences, AllTransfer, NoPayments)
    /\ NoCallbacks
    /\ NothingDone
    /\ NoProducts

NextUpdateState == update_state

SpecUpdateState == InitUpdateState /\ [][NextUpdateState]_vars

\* The callbacks a transaction may carry: none, one that is not fully
\* defined, a valid one, one whose record is gone, and ones whose method or
\* record id was changed after the hash was stored.  The hash is a string
\* whenever a callback is defined.
CallbackChoices ==
    {[model_id |-> 0, res_id |-> 0, method |-> "None", hash |-> <<"None">>],
     [model_id |-> 1, res_id |-> 0, method |-> "confirm",
      hash |-> Hmac(<<"sale.order", 1, "confirm">>)],
     [model_id |-> 1, res_id |-> 1, method |-> "confirm",
      hash |-> Hmac(<<"sale.order", 1, "confirm">>)],
     [model_id |-> 1, res_id |-> 2, method |-> "confirm",
      hash |-> Hmac(<<"sale.order", 2, "confirm">>)],
     [model_id |-> 1, res_id |-> 1, method |-> "unlink",
      hash |-> Hmac(<<"sale.order", 1, "confirm">>)],
     [model_id |-> 1, res_id |-> 1, method |-> "confirm",
      hash |-> Hmac(<<"sale.order", 2, "confirm">>)]}

\* Transactions with callbacks to execute
InitCallback ==
    /\ Transactions(InitTx, AllDraft, InitReferences, AllTransfer, NoPayments)
    /\ \E cb \in [1..InitTx -> CallbackChoices] :
        /\ callback_model_id = [t \in TxIds |-> IF t <= InitTx THEN cb[t].model_id ELSE 0]
        /\ callback_res_id = [t \in TxIds |-> IF t <= InitTx THEN cb[t].res_id ELSE 0]
        /\ callback_method = [t \in TxIds |-> IF t <= InitTx THEN cb[t].method
                                              ELSE "None"]
        /\ callback_hash = [t \in TxIds |-> IF t <= InitTx THEN cb[t].hash
                                            ELSE <<"None">>]
    /\ callback_is_done = [t \in TxIds |-> FALSE]
    /\ records = {<<1, 1>>}
    /\ NothingDone
    /\ NoProducts

NextCallback ==
    \/ _execute_callback
    \/ _handle_feedback_data

SpecCallback == InitCallback /\ [][NextCallback]_vars

\* The references of the transactions of a table, in any order
ReferencePool ==
    {<<"a">>, <<"a", "-", "1">>, <<"a", "-", "0", "2">>, <<"a", "-", "9">>,
     <<"a", "-", "r", "e", "f">>, <<"a", "$">>, <<"a", "$", "-", "1">>,
     <<"R", "-", "a", "$">>, <<"e">>, <<"I", "1">>}

\* Transactions with any references
InitReference ==
    /\ \E n \in 0..InitTx : \E refs \in [1..n -> ReferencePool] :
        /\ \A i, j \in 1..n : refs[i] = refs[j] => i = j
        /\ Transactions(n, [t \in 1..n |-> "draft"], refs,
                        [t \in 1..n |-> "adyen_direct"], [t \in 1..n |-> 0])
    /\ NoCallbacks
    /\ NothingDone
    /\ NoProducts

NextReference ==
    \/ compute_reference
    \/ _send_refund_request

SpecReference == InitReference /\ [][NextReference]_vars

\* Products with any prices, in or out of the sale domain, their names in
\* the reverse order of their ids
InitProducts ==
    /\ Transactions(0, <<>>, <<>>, <<>>, <<>>)
    /\ NoCallbacks
    /\ NothingDone
    /\ \E n \in 0..MaxProducts :
        /\ products = 1..n
        /\ \E prices \in [1..n -> {10, 20}], sale \in [1..n -> BOOLEAN] :
            /\ name = [p \in ProductIds |-> IF p <= n THEN n + 1 - p ELSE 0]
            /\ list_price = [p \in ProductIds |-> IF p <= n THEN prices[p] ELSE 0]
            /\ in_sale_domain = [p \in ProductIds |-> IF p <= n THEN sale[p] ELSE FALSE]
        /\ attribute_value_ids = [p \in ProductIds |-> IF p <= n THEN {1 + (p % 2)}
                                                       ELSE {}]
    /\ website_slug = [p \in ProductIds |-> "None"]
    /\ barcode = [p \in ProductIds |-> "None"]
    /\ can_access = [p \in ProductIds |-> p \in products]

NextProducts == resolve_products

SpecProducts == InitProducts /\ [][NextProducts]_vars

\* What a product may carry: a slug, a barcode, both or none, and whether
\* the current website gives access to it
ProductChoices ==
    {[slug |-> "s1", barcode |-> "b1", access |-> TRUE],
     [slug |-> "s1", barcode |-> "None", access |-> FALSE],
     [slug |-> "None", barcode |-> "b1", access |-> TRUE],
     [slug |-> "s2", barcode |-> "b2", access |-> FALSE],
     [slug |-> "None", barcode |-> "None", access |-> TRUE]}

\* Products to look up
InitProduct ==
    /\ Transactions(0, <<>>, <<>>, <<>>, <<>>)
    /\ NoCallbacks
    /\ NothingDone
    /\ \E n \in 0..MaxProducts : \E pr \in [1..n -> ProductChoices] :
        /\ products = 1..n
        /\ name = [p \in ProductIds |-> IF p <= n THEN n + 1 - p ELSE 0]
        /\ list_price = [p \in ProductIds |-> IF p <= n THEN 10 ELSE 0]
        /\ in_sale_domain = [p \in ProductIds |-> p <= n]
        /\ attribute_value_ids = [p \in ProductIds |-> {}]
        /\ website_slug = [p \in ProductIds |-> IF p <= n THEN pr[p].slug ELSE "None"]
        /\ barcode = [p \in ProductIds |-> IF p <= n THEN pr[p].barcode ELSE "None"]
        /\ can_access = [p \in ProductIds |-> IF p <= n THEN pr[p].access ELSE FALSE]

NextProduct == resolve_product

SpecProduct == InitProduct /\ [][NextProduct]_vars

\* Transactions with any references, and two requests about to refund
InitConcurrent ==
    /\ \E n \in 1..InitTx : \E refs \in [1..n -> ReferencePool] :
        /\ \A i, j \in 1..n : refs[i] = refs[j] => i = j
        /\ Transactions(n, [t \in 1..n |-> "done"], refs,
                        [t \in 1..n |-> "adyen_direct"], [t \in 1..n |-> 0])
    /\ NoCallbacks
    /\ NothingDone
    /\ NoProducts

NextConcurrent ==
    \E r \in Requests :
        \/ refund_compute_reference(r)
        \/ refund_create(r)

SpecConcurrent == InitConcurrent /\ [][NextConcurrent]_vars

----------------------------------------------------------------------------
(* State transitions *)

Edges ==
    ({"draft"} \X {"pending"})
    \cup ({"draft", "pending"} \X {"authorized"})
    \cup ({"draft", "pending", "authorized", "error"} \X {"done"})
    \cup ({"draft", "pending", "authorized"} \X {"cancel"})
    \cup ({"draft", "pending", "authorized"} \X {"error"})

\* C1: over any sequence of _set_pending, _set_authorized, _set_done,
\* _set_canceled and _set_error calls, every change of the state of a
\* transaction follows one of the edges draft->pending,
\* draft|pending->authorized, draft|pending|authorized|error->done,
\* draft|pending|authorized->cancel, draft|pending|authorized->error.
C1_StateChangesFollowEdges ==
    [][\A t \in TxIds : state'[t] # state[t] => <<state[t], state'[t]>> \in Edges]_vars

\* C1 witness: the state updates brought one transaction to 'done' and
\* another, whose payment they canceled, to 'cancel'
C1_Witness ==
    \E t, u \in txs :
        /\ state[t] = "done" /\ date[t] = MaxClock
        /\ state[u] = "cancel" /\ payment_id[u] \in canceled_payments

----------------------------------------------------------------------------
(* _update_state *)

\* the transactions of self whose state is in allowed_states
InAllowedState(self, allowed_states) == {t \in self : state[t] \in allowed_states}

C3_SkippedAreUntouched ==
    [][ret'.op = "_update_state" =>
        \A t \in ret'.self :
            (state[t] = ret'.args[2] \/ state[t] \notin ret'.args[1]) =>
                /\ state'[t] = state[t]
                /\ state_message'[t] = state_message[t]
                /\ date'[t] = date[t]
                /\ last_state_change'[t] = last_state_change[t]
                /\ t \notin ret'.val]_vars

----------------------------------------------------------------------------
(* Callbacks *)

Successful == {"True", "None"}

\* C4: once callback_is_done is true for a transaction, no _execute_callback
\* or _handle_feedback_data call invokes its callback again.
C4_DoneCallbackNotInvokedAgain ==
    [][\A t \in TxIds :
        callback_is_done[t] =>
            callback_calls'[t] = callback_calls[t] /\ callback_is_done'[t]]_vars

\* C4 witness: a transaction whose callback succeeded at its first invocation
\* is in the recordset of the last call, with one whose callback failed twice
C4_Witness ==
    /\ ret.op = "_execute_callback"
    /\ \E t, u \in ret.self :
        /\ callback_is_done[t] /\ callback_calls[t] = 1
        /\ ~callback_is_done[u] /\ callback_calls[u] = 2

\* C5: after _execute_callback invokes a callback, callback_is_done is true
\* iff the callback returned a truthy value or None; after a falsy return
\* other than None it is false and the next _execute_callback on the
\* transaction invokes the callback again.
C5_OnlySuccessfulCallbacksDone ==
    [][\A self \in SUBSET txs :
        ExecuteCallbacks(self) =>
            \A t \in self :
                /\ callback_calls'[t] # callback_calls[t] =>
                    (callback_is_done'[t] <=> callback_success'[t] \in Successful)
                /\ (callback_calls[t] > 0 /\ callback_success[t] \notin Successful) =>
                    ~callback_is_done[t] /\ callback_calls'[t] = callback_calls[t] + 1]_vars

\* C5 witness: a callback was invoked again after it failed, and returned None
C5_Witness ==
    \E t \in txs :
        callback_calls[t] = 2 /\ callback_success[t] = "None" /\ callback_is_done[t]

\* the stored hash is not the one generated from the callback of t
Tampered(t) ==
    callback_hash[t] # _generate_callback_hash_changed(
                           callback_model_id[t], callback_res_id[t], callback_method[t])

\* C6: when the stored callback_hash differs from the hash generated from
\* (callback model, callback_res_id, callback_method), the callback is not
\* invoked and callback_is_done stays false.
C6_TamperedCallbackIgnored ==
    \A t \in txs : Tampered(t) => callback_calls[t] = 0 /\ ~callback_is_done[t]

\* C6 witness: _execute_callback ran on a transaction with a defined callback
\* on an existing record and a hash that does not match, and on one it invoked
C6_Witness ==
    /\ ret.op = "_execute_callback"
    /\ \E t, u \in ret.self :
        /\ Tampered(t) /\ CallbackIsSet(t) /\ RecordExists(t)
        /\ callback_calls[u] > 0

----------------------------------------------------------------------------
(* Capture, void and refund *)

\* the state a transaction must be in for the operation
RequiredState(op) == IF op = "action_refund" THEN "done" ELSE "authorized"

\* C7: action_capture and action_void on a recordset with a transaction that
\* is not 'authorized', and action_refund on a recordset with a transaction
\* that is not 'done', raise ValidationError and send no request for any
\* transaction of the recordset.
C7_WrongStateRaisesAndSendsNothing ==
    [][(/\ ret'.op \in {"action_capture", "action_void", "action_refund"}
        /\ \E t \in ret'.self : state[t] # RequiredState(ret'.op))
       => /\ ret'.exc = "ValidationError"
          /\ requests' = requests
          /\ txs' = txs]_vars

\* C7 witness: action_capture raised on a recordset that holds an authorized
\* transaction, for which no request was sent
C7_Witness ==
    /\ ret.op = "action_capture"
    /\ ret.exc = "ValidationError"
    /\ \E t \in ret.self :
        /\ state[t] = "authorized"
        /\ \A k \in RequestKinds : requests[<<k, t>>] = 0

----------------------------------------------------------------------------
(* References *)

\* C8: the reference _compute_reference_changed returns is different from
\* every reference stored on a transaction.
C8_ReferenceIsUnique ==
    computed # NoComputed => computed.reference \notin computed.existing

\* the sequence numbers of the references of the exact form
\* {prefix}{separator}{digits}
SequenceNumbers(refs, prefix, separator) ==
    LET ps == prefix \o separator
    IN {ToInt(SubSeq(r, Len(ps) + 1, Len(r))) :
           r \in {x \in refs : /\ Len(x) > Len(ps)
                               /\ SubSeq(x, 1, Len(ps)) = ps
                               /\ IsDigits(SubSeq(x, Len(ps) + 1, Len(x)))}}

\* C9: _compute_reference_changed returns the prefix when no transaction has
\* a reference equal to the prefix, and otherwise {prefix}{separator}{n+1},
\* n being the largest sequence number among the references of the exact form
\* {prefix}{separator}{digits}, 0 when there is none.
C9_NextSequenceNumber ==
    computed # NoComputed =>
        LET p == computed.computed_prefix
            n == SetMax(SequenceNumbers(computed.existing, p, computed.separator)
                            \cup {0})
        IN computed.reference =
               IF p \in computed.existing
               THEN p \o computed.separator \o ToStr(n + 1)
               ELSE p

----------------------------------------------------------------------------
(* Product list *)

\* the elements of seq at the 0-based positions lo <= i < hi
Interval(seq, lo, hi) ==
    LET idx == {i \in 1..Len(seq) : lo <= i - 1 /\ i - 1 < hi}
    IN [k \in 1..Cardinality(idx) |-> seq[(CHOOSE i \in idx : \A j \in idx : i <= j) + k - 1]]

\* C10: get_product_list returns as total_count the number of all products
\* matching the search domain, whatever current_page and page_size, and as
\* products the slice [offset, offset + page_size) of the ordered matches,
\* offset being (current_page - 1) * page_size when current_page > 1 and 0
\* otherwise.
C10_PageOfMatches ==
    product_list # NoProductList =>
        LET found == Search(product_list.filter, get_search_order(product_list.sort))
            offset == IF product_list.current_page > 1
                      THEN (product_list.current_page - 1) * product_list.page_size
                      ELSE 0
        IN /\ product_list.total_count =
                  Cardinality({p \in products : get_search_domain(product_list.filter, p)})
           /\ product_list.products =
                  Interval(found, offset, offset + product_list.page_size)

\* the term of the order a (field, direction) item of the sort input asks for
RequestedTerm(item) ==
    <<IF item[1] = "price" THEN "list_price" ELSE item[1], item[2]>>

\* C11: for every sort input, the empty one included, the order of
\* get_search_order lists the requested fields in input order, 'price' as
\* 'list_price', followed by 'id ASC' as the last term; the order is total,
\* and the products of a search are a sequence strictly ascending in it, so
\* two searches over the same products return the same sequence.
C11_OrderEndsWithId ==
    product_list # NoProductList =>
        LET sort == product_list.sort
            order == product_list.order
            found == product_list.products
        IN /\ Len(order) = Len(sort) + 1
           /\ \A i \in 1..Len(sort) : order[i] = RequestedTerm(sort[i])
           /\ order[Len(order)] = <<"id", "ASC">>
           /\ \A p, q \in products :
                  p # q => (Before(p, q, order) <=> ~Before(q, p, order))
           /\ \A i, j \in 1..Len(found) :
                  i < j => Before(found[i], found[j], order)

\* C11 witness: a search sorted by price returned two products of the same
\* price, the one with the smaller id first
C11_Witness ==
    /\ product_list # NoProductList
    /\ \E i \in 1..Len(product_list.sort) : product_list.sort[i][1] = "price"
    /\ \E i \in 1..Len(product_list.products) - 1 :
        /\ list_price[product_list.products[i]] = list_price[product_list.products[i + 1]]
        /\ product_list.products[i] < product_list.products[i + 1]

----------------------------------------------------------------------------
(* Product lookup *)

\* the products the arguments designate: by id when id is given, else by slug
\* when slug is given, else by barcode when barcode is given
Designated(id, slug, bcode) ==
    IF id # <<>> THEN {p \in products : p = id[1]}
    ELSE IF slug # <<>> THEN {p \in products : website_slug[p] = slug[1]}
    ELSE IF bcode # <<>> THEN {p \in products : barcode[p] = bcode[1]}
    ELSE {}

\* C12: resolve_product looks the product up by id when id is given, else by
\* slug when slug is given, else by barcode when barcode is given; it raises
\* GraphQLError when none of the three is given, when no product matches or
\* when the matching product cannot be accessed from the current website, and
\* returns the product otherwise.
C12_LookupByIdSlugBarcode ==
    ret.op = "resolve_product" =>
        LET matching == Designated(ret.args[1], ret.args[2], ret.args[3])
        IN /\ matching = {} => ret.exc = "GraphQLError"
           /\ (\A p \in matching : ~can_access[p]) => ret.exc = "GraphQLError"
           /\ ret.exc = "GraphQLError" =>
                  matching = {} \/ \E p \in matching : ~can_access[p]
           /\ ret.exc = "None" =>
                  /\ Cardinality(ret.val) = 1
                  /\ ret.val \subseteq matching
                  /\ \A p \in ret.val : can_access[p]
           /\ ret.exc \in {"None", "GraphQLError"}

----------------------------------------------------------------------------
(* Refunds requested at the same time *)

====
